---------------------------- MODULE Spec2Model ----------------------------
(***************************************************************************)
(* A model of altersquare/ai-file-categorization:                          *)
(*   - the label normalizer basicNormalize and the category-consolidation  *)
(*     engine normalizeCategoriesAndGroup (fileServices),                  *)
(*   - the copy loop of organizeFilesByCategory (fileServices),            *)
(*   - the process-wide upload lock lockMiddleware and the /upload route,  *)
(*     with what each run of uploadZip leaves on disk,                     *)
(*   - the depth validation of uploadZip and the walk of processDirectory. *)
(* Labels are TLA+ strings, handled character by character, as the        *)
(* JavaScript string methods and regular expressions of the source do.     *)
(***************************************************************************)
EXTENDS Integers, Sequences, FiniteSets, TLC

VARIABLES
    \* ---- basicNormalize applied to one string
    category,            \* the argument of basicNormalize
    normalized,          \* basicNormalize(category)
    renormalized,        \* basicNormalize(normalized)
    npc,                 \* "start" | "normalized" | "renormalized"
    \* ---- normalizeCategoriesAndGroup
    keys,                \* Object.keys(fileCategories), in order
    fileCategories,      \* label -> list of file paths
    categoryEntries,     \* Object.values(categoryMap): records of the first pass
    categoryGroups,      \* the closed groups
    group,               \* the group being built by the outer loop body
    i, j,                \* loop indices of the second pass (1-based)
    normalizedCategories,\* bucket name -> list of file paths
    gpc,                 \* position in normalizeCategoriesAndGroup
    \* ---- lockMiddleware and the /upload route
    isLocked,            \* the module-level flag of the lock middleware
    rstate,              \* per request: position in the middleware chain
    finishListener,      \* per request: res.on('finish', ...) was registered
    response,            \* per request: "none" | "pending" | "ended" |
                         \*              "finished" | "aborted"
    status,              \* per request: the status code written, or "none"
    reqFile,             \* per request: req.file is set
    files,               \* per request: what the run has on disk, of
                         \*   "upload", "extracted", "categorized", "resultZip"
    \* ---- organizeFilesByCategory
    categoryOrder,       \* the keys of normalizedCategories, in for-in order
    ci, fi,              \* loop indices: category and file (1-based)
    ensuredDirs,         \* the category directories created so far
    copyLog,             \* the fs.copy calls made, each with its outcome
    thrown,              \* the error organizeFilesByCategory raised, or "none"
    opc,                 \* position in organizeFilesByCategory
    \* ---- uploadZip: depth validation and processDirectory
    extracted,           \* the items of the extracted archive's root
    maxDepth,            \* getMaxDepth(extractPath)
    dirCategories,       \* the object processDirectory returned
    dpc                  \* "extracted" | "rejected" | "validated" | "processed"

normVars  == <<category, normalized, renormalized, npc>>
groupVars == <<keys, fileCategories, categoryEntries, categoryGroups, group,
               i, j, normalizedCategories, gpc>>
lockVars  == <<isLocked, rstate, finishListener, response, status, reqFile,
               files>>
orgVars   == <<categoryOrder, ci, fi, ensuredDirs, copyLog, thrown, opc>>
depthVars == <<extracted, maxDepth, dirCategories, dpc>>
vars      == <<normVars, groupVars, lockVars, orgVars, depthVars>>

(***************************************************************************)
(* Bounds of the model.                                                    *)
(***************************************************************************)
MaxLen      == 3     \* longest string handed to basicNormalize on its own
MaxLabels   == 3     \* most distinct labels in one fileCategories object
MaxRequests == 3     \* upload requests that arrive

(***************************************************************************)
(* Characters.                                                             *)
(***************************************************************************)
Chr(s, k) == SubSeq(s, k, k)

CharsOf(s) == {Chr(s, k) : k \in 1..Len(s)}

UpperAlpha == "ABCDEFGHIJKLMNOPQRSTUVWXYZ"
LowerAlpha == "abcdefghijklmnopqrstuvwxyz"
Digits     == "0123456789"

Letters    == CharsOf(UpperAlpha) \cup CharsOf(LowerAlpha)
DigitChars == CharsOf(Digits)

AlnumChars == Letters \cup DigitChars
WordChars  == AlnumChars \cup {"_"}
SpaceChars == {" ", "\t", "\n"}

\* the regular-expression class \w : [A-Za-z0-9_]
IsWordChar(c) == c \in WordChars

\* the regular-expression class \s (the members that occur in labels)
IsSpaceChar(c) == c \in SpaceChars

LowerOf ==
    [c \in CharsOf(UpperAlpha) |->
        Chr(LowerAlpha, CHOOSE k \in 1..26 : Chr(UpperAlpha, k) = c)]

toLowerCaseChar(c) == IF c \in DOMAIN LowerOf THEN LowerOf[c] ELSE c

RECURSIVE toLowerCase(_)
toLowerCase(s) ==
    IF Len(s) = 0 THEN "" ELSE toLowerCaseChar(Head(s)) \o toLowerCase(Tail(s))

\* .replace(/&/g, " and ")
RECURSIVE ReplaceAmpersand(_)
ReplaceAmpersand(s) ==
    IF Len(s) = 0 THEN ""
    ELSE (IF Head(s) = "&" THEN " and " ELSE Head(s)) \o ReplaceAmpersand(Tail(s))

\* .replace(/[^\w\s]/g, " ")
RECURSIVE ReplaceNonWord(_)
ReplaceNonWord(s) ==
    IF Len(s) = 0 THEN ""
    ELSE (IF IsWordChar(Head(s)) \/ IsSpaceChar(Head(s)) THEN Head(s) ELSE " ")
         \o ReplaceNonWord(Tail(s))

\* .replace(/\s+/g, " ")
RECURSIVE CollapseWhitespace(_)
CollapseWhitespace(s) ==
    IF Len(s) = 0 THEN ""
    ELSE IF IsSpaceChar(Head(s))
         THEN IF Len(s) > 1 /\ IsSpaceChar(Chr(s, 2))
              THEN CollapseWhitespace(Tail(s))
              ELSE " " \o CollapseWhitespace(Tail(s))
         ELSE Head(s) \o CollapseWhitespace(Tail(s))

RECURSIVE TrimStart(_)
TrimStart(s) ==
    IF Len(s) > 0 /\ IsSpaceChar(Head(s)) THEN TrimStart(Tail(s)) ELSE s

RECURSIVE TrimEnd(_)
TrimEnd(s) ==
    IF Len(s) > 0 /\ IsSpaceChar(Chr(s, Len(s)))
    THEN TrimEnd(SubSeq(s, 1, Len(s) - 1)) ELSE s

\* .trim()
trim(s) == TrimEnd(TrimStart(s))

\* a plausible slip of basicNormalize: whitespace collapsed before the
\* punctuation is replaced
basicNormalizeCollapseFirst(s) ==
    trim(ReplaceNonWord(CollapseWhitespace(ReplaceAmpersand(toLowerCase(s)))))

\* basicNormalize of normalizeCategoriesAndGroup
basicNormalize(s) ==
    trim(CollapseWhitespace(ReplaceNonWord(ReplaceAmpersand(toLowerCase(s)))))

(***************************************************************************)
(* Idle values of the parts a specification does not exercise.             *)
(***************************************************************************)
Requests == 1..MaxRequests

NormIdle ==
    /\ category = ""
    /\ normalized = ""
    /\ renormalized = ""
    /\ npc = "idle"

GroupIdle ==
    /\ keys = <<>>
    /\ fileCategories = <<>>
    /\ categoryEntries = <<>>
    /\ categoryGroups = <<>>
    /\ group = [categories |-> <<>>, primaryName |-> ""]
    /\ i = 0
    /\ j = 0
    /\ normalizedCategories = <<>>
    /\ gpc = "idle"

LockIdle ==
    /\ isLocked = FALSE
    /\ rstate = [r \in Requests |-> "idle"]
    /\ finishListener = [r \in Requests |-> FALSE]
    /\ response = [r \in Requests |-> "none"]
    /\ status = [r \in Requests |-> "none"]
    /\ reqFile = [r \in Requests |-> FALSE]
    /\ files = [r \in Requests |-> {}]

OrgIdle ==
    /\ categoryOrder = <<>>
    /\ ci = 0
    /\ fi = 0
    /\ ensuredDirs = <<>>
    /\ copyLog = <<>>
    /\ thrown = "none"
    /\ opc = "idle"

DepthIdle ==
    /\ extracted = <<>>
    /\ maxDepth = 0
    /\ dirCategories = <<>>
    /\ dpc = "idle"

(***************************************************************************)
(* basicNormalize on its own: every string up to MaxLen over an alphabet   *)
(* with one character of each kind the function distinguishes.             *)
(***************************************************************************)
NormAlphabet == {"A", "b", "7", "_", "&", "-", " ", "\t"}

RECURSIVE StringsUpTo(_)
StringsUpTo(n) ==
    IF n = 0 THEN {""}
    ELSE LET P == StringsUpTo(n - 1)
         IN  P \cup {s \o c : s \in P, c \in NormAlphabet}

NormInit ==
    /\ category \in StringsUpTo(MaxLen)
    /\ normalized = ""
    /\ renormalized = ""
    /\ npc = "start"
    /\ GroupIdle
    /\ LockIdle
    /\ OrgIdle
    /\ DepthIdle

Normalize ==
    /\ npc = "start"
    /\ normalized' = basicNormalize(category)
    /\ npc' = "normalized"
    /\ UNCHANGED <<category, renormalized, groupVars, lockVars, orgVars, depthVars>>

Renormalize ==
    /\ npc = "normalized"
    /\ renormalized' = basicNormalize(normalized)
    /\ npc' = "renormalized"
    /\ UNCHANGED <<category, normalized, groupVars, lockVars, orgVars, depthVars>>

NormNext == Normalize \/ Renormalize

SpecNormalize == NormInit /\ [][NormNext]_vars

(***************************************************************************)
(* normalizeCategoriesAndGroup: reference data.                            *)
(***************************************************************************)
ToSet(seq) == {seq[k] : k \in 1..Len(seq)}

\* Array.prototype.includes
includes(arr, x) == \E k \in 1..Len(arr) : arr[k] = x

\* .split(" ")
RECURSIVE SplitFrom(_, _, _)
SplitFrom(s, cur, acc) ==
    IF Len(s) = 0 THEN Append(acc, cur)
    ELSE IF Head(s) = " "
         THEN SplitFrom(Tail(s), "", Append(acc, cur))
         ELSE SplitFrom(Tail(s), cur \o Head(s), acc)

split(s) == SplitFrom(s, "", <<>>)

\* normalized.split(" ").filter((w) => w.length > 2)
significantWords(norm) == SelectSeq(split(norm), LAMBDA w : Len(w) > 2)

synonymGroups == <<
    <<"report", "statement", "analysis", "summary", "overview", "review">>,
    <<"invoice", "bill", "receipt", "voucher", "ticket", "stub">>,
    <<"sales", "revenue", "income", "earnings", "proceeds">>,
    <<"expense", "cost", "expenditure", "spending", "outlay">>,
    <<"stock", "inventory", "assets", "holdings", "shares">>,
    <<"budget", "forecast", "projection", "estimate", "plan">>,
    <<"profit", "loss", "pnl", "p&l", "earnings">>,
    <<"tax", "taxes", "taxation", "duty", "levy">>,
    <<"audit", "auditing", "compliance", "verification">>,
    <<"payroll", "salary", "wages", "compensation">>,
    <<"balance", "sheet", "financial", "fiscal">>,
    <<"contract", "agreement", "deal", "arrangement", "pact">>,
    <<"legal", "law", "lawyer", "attorney", "counsel">>,
    <<"license", "permit", "authorization", "certification">>,
    <<"terms", "conditions", "policy", "policies">>,
    <<"compliance", "regulation", "regulatory", "rule">>,
    <<"lawsuit", "litigation", "dispute", "claim">>,
    <<"patent", "trademark", "copyright", "intellectual property">>,
    <<"nda", "non disclosure", "confidentiality">>,
    <<"resume", "cv", "curriculum vitae", "bio", "profile">>,
    <<"employee", "staff", "personnel", "worker">>,
    <<"job", "position", "role", "employment">>,
    <<"hire", "hiring", "recruitment", "onboarding">>,
    <<"performance", "evaluation", "appraisal", "review">>,
    <<"training", "development", "education", "learning">>,
    <<"benefit", "benefits", "compensation", "package">>,
    <<"letter", "correspondence", "mail", "email", "message">>,
    <<"memo", "memorandum", "notice", "announcement">>,
    <<"newsletter", "bulletin", "update", "communication">>,
    <<"proposal", "offer", "bid", "quote", "quotation">>,
    <<"presentation", "slides", "deck", "slideshow">>,
    <<"meeting", "minutes", "notes", "agenda">>,
    <<"code", "script", "source", "program", "software">>,
    <<"manual", "guide", "instruction", "documentation", "doc">>,
    <<"specification", "spec", "requirement", "design">>,
    <<"config", "configuration", "settings", "setup">>,
    <<"log", "logs", "logging", "debug", "trace">>,
    <<"database", "db", "data", "dataset", "records">>,
    <<"backup", "archive", "copy", "duplicate">>,
    <<"security", "password", "credential", "auth">>,
    <<"api", "interface", "endpoint", "service">>,
    <<"test", "testing", "qa", "quality", "validation">>,
    <<"marketing", "promotion", "advertising", "campaign">>,
    <<"brochure", "flyer", "pamphlet", "leaflet">>,
    <<"catalog", "catalogue", "brochure", "portfolio">>,
    <<"customer", "client", "prospect", "lead">>,
    <<"product", "service", "offering", "solution">>,
    <<"brand", "branding", "identity", "logo">>,
    <<"social", "media", "digital", "online">>,
    <<"project", "initiative", "program", "effort">>,
    <<"timeline", "schedule", "plan", "roadmap">>,
    <<"milestone", "deliverable", "task", "activity">>,
    <<"resource", "allocation", "assignment", "distribution">>,
    <<"status", "progress", "update", "tracker">>,
    <<"risk", "issue", "problem", "concern">>,
    <<"medical", "health", "healthcare", "clinical">>,
    <<"patient", "record", "chart", "file">>,
    <<"prescription", "medication", "drug", "medicine">>,
    <<"treatment", "therapy", "procedure", "intervention">>,
    <<"diagnosis", "condition", "disease", "illness">>,
    <<"insurance", "claim", "coverage", "policy">>,
    <<"property", "real estate", "realty", "estate">>,
    <<"lease", "rental", "rent", "tenancy">>,
    <<"mortgage", "loan", "financing", "credit">>,
    <<"inspection", "appraisal", "valuation", "assessment">>,
    <<"deed", "title", "ownership", "property">>,
    <<"course", "class", "lesson", "lecture">>,
    <<"assignment", "homework", "project", "exercise">>,
    <<"exam", "test", "quiz", "assessment">>,
    <<"grade", "score", "mark", "result">>,
    <<"thesis", "dissertation", "paper", "research">>,
    <<"student", "pupil", "learner", "scholar">>,
    <<"teacher", "instructor", "professor", "educator">>,
    <<"image", "photo", "picture", "graphic">>,
    <<"video", "movie", "film", "clip">>,
    <<"audio", "sound", "music", "recording">>,
    <<"design", "artwork", "creative", "visual">>,
    <<"template", "layout", "format", "style">>,
    <<"content", "material", "media", "asset">>,
    <<"form", "application", "request", "submission">>,
    <<"certificate", "diploma", "award", "recognition">>,
    <<"warranty", "guarantee", "service", "support">>,
    <<"inventory", "list", "catalog", "index">>,
    <<"schedule", "calendar", "timetable", "agenda">>,
    <<"checklist", "todo", "task", "action">>,
    <<"manufacturing", "production", "factory", "plant">>,
    <<"retail", "store", "shop", "outlet">>,
    <<"logistics", "shipping", "delivery", "transport">>,
    <<"supply", "vendor", "supplier", "procurement">>,
    <<"quality", "control", "assurance", "standard">>,
    <<"daily", "weekly", "monthly", "quarterly", "annual">>,
    <<"year", "yearly", "annual", "12month">>,
    <<"quarter", "quarterly", "q1", "q2", "q3", "q4">>,
    <<"month", "monthly", "30day">>,
    <<"create", "creation", "develop", "development">>,
    <<"update", "revision", "modification", "change">>,
    <<"draft", "preliminary", "initial", "rough">>,
    <<"final", "complete", "finished", "done">>,
    <<"approved", "signed", "executed", "ratified">>,
    <<"pending", "waiting", "review", "approval">>,
    <<"spreadsheet", "excel", "csv", "data">>,
    <<"document", "word", "text", "doc">>,
    <<"pdf", "portable", "acrobat">>,
    <<"image", "jpg", "png", "gif">>,
    <<"archive", "zip", "compressed", "backup">>,
    <<"admin", "administrative", "administration", "office">>,
    <<"internal", "external", "public", "private">>,
    <<"confidential", "secret", "classified", "restricted">>,
    <<"draft", "working", "temp", "temporary">>,
    <<"old", "archive", "historical", "legacy">>,
    <<"new", "latest", "current", "recent">>,
    <<"contact", "address", "phone", "directory">>,
    <<"partner", "vendor", "supplier", "contractor">>,
    <<"internal", "staff", "employee", "team">>,
    <<"external", "client", "customer", "public">>
>>

\* the alternatives of imagePattern
imageKeywords == <<"image", "photo", "picture", "graphic", "svg",
                   "scalable vector graphic", "png", "jpg", "jpeg", "gif",
                   "bmp", "tiff", "webp">>

\* a plausible slip of imagePatternTest: the pattern without its \b anchors
imagePatternTestUnanchored(s) ==
    LET low == toLowerCase(s)
    IN  \E k \in 1..Len(imageKeywords) :
            \E p \in 1..Len(s) :
                /\ p + Len(imageKeywords[k]) - 1 <= Len(s)
                /\ SubSeq(low, p, p + Len(imageKeywords[k]) - 1)
                       = imageKeywords[k]

\* imagePattern.test(s), imagePattern = /\b(image|photo|...|webp)\b/i :
\* every alternative starts and ends with a \w character, so \b holds at an
\* end of the match exactly when the neighbour is missing or not in \w
imagePatternTest(s) ==
    LET low == toLowerCase(s)
    IN  \E k \in 1..Len(imageKeywords) :
            \E p \in 1..Len(s) :
                LET q == p + Len(imageKeywords[k]) - 1
                IN  /\ q <= Len(s)
                    /\ SubSeq(low, p, q) = imageKeywords[k]
                    /\ (p = 1 \/ ~IsWordChar(Chr(s, p - 1)))
                    /\ (q = Len(s) \/ ~IsWordChar(Chr(s, q + 1)))

(***************************************************************************)
(* The match test of the second pass (Methods 1 to 3).                     *)
(***************************************************************************)
\* Method 1: exact match after normalization
Method1(entry, otherEntry) == entry.normalized = otherEntry.normalized

\* a plausible slip of Method2: "intersection.size > 0" left out
Method2NoNonEmpty(entry, otherEntry) ==
    LET entryWords   == ToSet(entry.words)
        otherWords   == ToSet(otherEntry.words)
        intersection == {x \in entryWords : x \in otherWords}
    IN  \/ Cardinality(intersection) >= 2
        \/ Cardinality(intersection) = Cardinality(entryWords)
        \/ Cardinality(intersection) = Cardinality(otherWords)

\* Method 2: shared significant words
Method2(entry, otherEntry) ==
    LET entryWords   == ToSet(entry.words)
        otherWords   == ToSet(otherEntry.words)
        intersection == {x \in entryWords : x \in otherWords}
    IN  \/ Cardinality(intersection) >= 2
        \/ /\ Cardinality(intersection) > 0
           /\ \/ Cardinality(intersection) = Cardinality(entryWords)
              \/ Cardinality(intersection) = Cardinality(otherWords)

\* a plausible slip of Method3: the shared non-synonym word is not required
Method3NoShared(entry, otherEntry) ==
    \E g \in 1..Len(synonymGroups) :
        /\ \E k \in 1..Len(entry.words) :
               includes(synonymGroups[g], entry.words[k])
        /\ \E k \in 1..Len(otherEntry.words) :
               includes(synonymGroups[g], otherEntry.words[k])

\* Method 3: synonym relationship with a shared non-synonym word
Method3(entry, otherEntry) ==
    \E g \in 1..Len(synonymGroups) :
        LET synonymSet       == synonymGroups[g]
            entryHasSynonym  == \E k \in 1..Len(entry.words) :
                                    includes(synonymSet, entry.words[k])
            otherHasSynonym  == \E k \in 1..Len(otherEntry.words) :
                                    includes(synonymSet, otherEntry.words[k])
            entryNonSynonyms == SelectSeq(entry.words,
                                    LAMBDA w : ~includes(synonymSet, w))
            otherNonSynonyms == SelectSeq(otherEntry.words,
                                    LAMBDA w : ~includes(synonymSet, w))
        IN  /\ entryHasSynonym
            /\ otherHasSynonym
            /\ \E k \in 1..Len(entryNonSynonyms) :
                   includes(otherNonSynonyms, entryNonSynonyms[k])

\* a plausible slip of shouldGroup: the candidate is tested against every
\* category already in the group, not against the seed alone
shouldGroupAnyMember(entry, otherEntry) ==
    \E m \in 1..Len(group.categories) :
        LET member == [normalized |-> basicNormalize(group.categories[m]),
                       words      |-> significantWords(
                                          basicNormalize(group.categories[m]))]
        IN  \/ Method1(member, otherEntry)
            \/ Method2(member, otherEntry)
            \/ Method3(member, otherEntry)

\* a plausible slip of shouldGroup: Method 1 left out
shouldGroupNoExact(entry, otherEntry) ==
    Method2(entry, otherEntry) \/ Method3(entry, otherEntry)

\* the value of shouldGroup after the three methods
shouldGroup(entry, otherEntry) ==
    IF Method1(entry, otherEntry) THEN TRUE
    ELSE IF Method2(entry, otherEntry) THEN TRUE
    ELSE Method3(entry, otherEntry)

(***************************************************************************)
(* The inputs: fileCategories objects whose keys are drawn from a pool of  *)
(* labels, each with its list of file paths.                               *)
(***************************************************************************)
InputPool == <<
    [label |-> "Invoice_2024",  paths |-> <<"a1.pdf", "a2.pdf">>],
    [label |-> "Receipt_2024",  paths |-> <<"b1.pdf">>],
    [label |-> "Invoice 2024",  paths |-> <<"c1.pdf">>],
    [label |-> "Receipt-2024",  paths |-> <<"d1.txt", "d2.txt">>],
    [label |-> "Invoice",       paths |-> <<"e1.txt">>],
    [label |-> "invoice",       paths |-> <<"f1.txt", "f2.txt">>],
    [label |-> "Report",        paths |-> <<"g1.md">>],
    [label |-> "Annual Report", paths |-> <<"h1.md", "h2.md">>],
    [label |-> "Report in png", paths |-> <<"k1.png">>],
    [label |-> "AB",            paths |-> <<"m1.csv">>],
    [label |-> "ab",            paths |-> <<"n1.csv", "n2.csv">>],
    [label |-> "Document_Screenshot.png_batch", paths |-> <<"s1.png">>]
>>

PoolLabels == {InputPool[k].label : k \in 1..Len(InputPool)}

PoolPaths(l) == InputPool[CHOOSE k \in 1..Len(InputPool) : InputPool[k].label = l].paths

\* the sequences of at most n distinct labels
RECURSIVE KeySeqs(_)
KeySeqs(n) ==
    IF n = 0 THEN {<<>>}
    ELSE LET P == KeySeqs(n - 1)
         IN  P \cup {Append(s, l) : s \in P, l \in PoolLabels}

DistinctKeySeqs(n) ==
    {s \in KeySeqs(n) : Cardinality(ToSet(s)) = Len(s)}

(***************************************************************************)
(* normalizeCategoriesAndGroup, step by step.                              *)
(***************************************************************************)
GroupInit ==
    /\ keys \in DistinctKeySeqs(MaxLabels)
    /\ fileCategories = [l \in ToSet(keys) |-> PoolPaths(l)]
    /\ categoryEntries = <<>>
    /\ categoryGroups = <<>>
    /\ group = [categories |-> <<>>, primaryName |-> ""]
    /\ i = 0
    /\ j = 0
    /\ normalizedCategories = <<>>
    /\ gpc = "firstPass"
    /\ NormIdle
    /\ LockIdle
    /\ OrgIdle
    /\ DepthIdle

\* one entry of categoryMap
MakeEntry(cat) ==
    [original       |-> cat,
     normalized     |-> basicNormalize(cat),
     words          |-> significantWords(basicNormalize(cat)),
     hasBeenGrouped |-> FALSE]

\* First pass: normalize all categories; categoryEntries = Object.values
FirstPass ==
    /\ gpc = "firstPass"
    /\ categoryEntries' = [k \in 1..Len(keys) |-> MakeEntry(keys[k])]
    /\ i' = 1
    /\ gpc' = "outer"
    /\ UNCHANGED <<keys, fileCategories, categoryGroups, group, j,
                   normalizedCategories, normVars, lockVars, orgVars, depthVars>>

\* outer loop: "if (entry.hasBeenGrouped) continue"
SkipGrouped ==
    /\ gpc = "outer"
    /\ i <= Len(categoryEntries)
    /\ categoryEntries[i].hasBeenGrouped
    /\ i' = i + 1
    /\ UNCHANGED <<keys, fileCategories, categoryEntries, categoryGroups,
                   group, j, normalizedCategories, gpc, normVars, lockVars, orgVars, depthVars>>

\* a plausible slip of MarkGrouped: the marker is never set
MarkGroupedForgotten(entries, k) == entries

\* "entry.hasBeenGrouped = true" / "otherEntry.hasBeenGrouped = true"
MarkGrouped(entries, k) == [entries EXCEPT ![k].hasBeenGrouped = TRUE]

\* outer loop: start a new group with entry i
StartGroup ==
    /\ gpc = "outer"
    /\ i <= Len(categoryEntries)
    /\ ~categoryEntries[i].hasBeenGrouped
    /\ group' = [categories  |-> <<categoryEntries[i].original>>,
                 primaryName |-> categoryEntries[i].original]
    /\ categoryEntries' = MarkGrouped(categoryEntries, i)
    /\ j' = 1
    /\ gpc' = "inner"
    /\ UNCHANGED <<keys, fileCategories, categoryGroups, i,
                   normalizedCategories, normVars, lockVars, orgVars, depthVars>>

\* a plausible slip of AbsorbName: ">=" for ">"
AbsorbNameLastWins(primaryName, original) ==
    IF Len(original) >= Len(primaryName) THEN original ELSE primaryName

\* "if (otherEntry.original.length > group.primaryName.length)"
AbsorbName(primaryName, original) ==
    IF Len(original) > Len(primaryName) THEN original ELSE primaryName

\* inner loop: one iteration for index j
Compare ==
    /\ gpc = "inner"
    /\ j <= Len(categoryEntries)
    /\ IF i = j \/ categoryEntries[j].hasBeenGrouped
       THEN UNCHANGED <<group, categoryEntries>>
       ELSE IF shouldGroup(categoryEntries[i], categoryEntries[j])
            THEN /\ group' =
                        [categories  |-> Append(group.categories,
                                                categoryEntries[j].original),
                         primaryName |-> AbsorbName(group.primaryName,
                                                categoryEntries[j].original)]
                 /\ categoryEntries' = MarkGrouped(categoryEntries, j)
            ELSE UNCHANGED <<group, categoryEntries>>
    /\ j' = j + 1
    /\ UNCHANGED <<keys, fileCategories, categoryGroups, i,
                   normalizedCategories, gpc, normVars, lockVars, orgVars, depthVars>>

\* end of the inner loop: categoryGroups.push(group)
CloseGroup ==
    /\ gpc = "inner"
    /\ j > Len(categoryEntries)
    /\ categoryGroups' = Append(categoryGroups, group)
    /\ i' = i + 1
    /\ gpc' = "outer"
    /\ UNCHANGED <<keys, fileCategories, categoryEntries, group, j,
                   normalizedCategories, normVars, lockVars, orgVars, depthVars>>

\* end of the second pass
EndGrouping ==
    /\ gpc = "outer"
    /\ i > Len(categoryEntries)
    /\ i' = 1
    /\ gpc' = "build"
    /\ UNCHANGED <<keys, fileCategories, categoryEntries, categoryGroups,
                   group, j, normalizedCategories, normVars, lockVars, orgVars, depthVars>>

\* obj[k] = obj[k] || []
EnsureKey(obj, k) ==
    IF k \in DOMAIN obj THEN obj ELSE [x \in DOMAIN obj \cup {k} |->
                                           IF x = k THEN <<>> ELSE obj[x]]

\* obj[k].push(...items)
PushAll(obj, k, items) == [obj EXCEPT ![k] = obj[k] \o items]

\* a plausible slip of MergeCategory: an image-related category merged
\* under 'Images' and under the group's name as well
MergeCategoryBoth(obj, primaryName, cat) ==
    IF imagePatternTest(cat)
    THEN PushAll(PushAll(EnsureKey(obj, "Images"), "Images", fileCategories[cat]),
                 primaryName, fileCategories[cat])
    ELSE PushAll(obj, primaryName, fileCategories[cat])

\* a plausible slip of MergeCategory: no per-category image test
MergeCategoryNoOverride(obj, primaryName, cat) ==
    PushAll(obj, primaryName, fileCategories[cat])

\* body of "for (const category of group.categories)"
MergeCategory(obj, primaryName, cat) ==
    IF imagePatternTest(cat)
    THEN PushAll(EnsureKey(obj, "Images"), "Images", fileCategories[cat])
    ELSE PushAll(obj, primaryName, fileCategories[cat])

RECURSIVE MergeCategories(_, _, _)
MergeCategories(obj, primaryName, cats) ==
    IF Len(cats) = 0 THEN obj
    ELSE MergeCategories(MergeCategory(obj, primaryName, Head(cats)),
                         primaryName, Tail(cats))

\* a plausible slip of BucketName: the primary name is not tested
BucketNameNoOverride(grp) == grp.primaryName

\* the bucket a group's members go to by default
BucketName(grp) ==
    IF imagePatternTest(grp.primaryName) THEN "Images" ELSE grp.primaryName

\* body of "for (const group of categoryGroups)"
BuildGroup ==
    /\ gpc = "build"
    /\ i <= Len(categoryGroups)
    /\ normalizedCategories' =
           MergeCategories(
               EnsureKey(normalizedCategories, BucketName(categoryGroups[i])),
               BucketName(categoryGroups[i]),
               categoryGroups[i].categories)
    /\ i' = i + 1
    /\ UNCHANGED <<keys, fileCategories, categoryEntries, categoryGroups,
                   group, j, gpc, normVars, lockVars, orgVars, depthVars>>

\* return normalizedCategories
Return ==
    /\ gpc = "build"
    /\ i > Len(categoryGroups)
    /\ gpc' = "done"
    /\ UNCHANGED <<keys, fileCategories, categoryEntries, categoryGroups,
                   group, i, j, normalizedCategories, normVars, lockVars, orgVars, depthVars>>

GroupNext ==
    \/ FirstPass
    \/ SkipGrouped
    \/ StartGroup
    \/ Compare
    \/ CloseGroup
    \/ EndGrouping
    \/ BuildGroup
    \/ Return

SpecGroup == GroupInit /\ [][GroupNext]_vars

(***************************************************************************)
(* organizeFilesByCategory: normalizeCategoriesAndGroup, then one          *)
(* directory per bucket and one fs.copy per path.  fs.ensureDir and        *)
(* fs.copy are calls into the file system and either of them can fail.     *)
(***************************************************************************)
MaxOrgLabels == 2    \* most distinct labels handed to organizeFilesByCategory

OrganizeInit ==
    /\ keys \in DistinctKeySeqs(MaxOrgLabels)
    /\ fileCategories = [l \in ToSet(keys) |-> PoolPaths(l)]
    /\ categoryEntries = <<>>
    /\ categoryGroups = <<>>
    /\ group = [categories |-> <<>>, primaryName |-> ""]
    /\ i = 0
    /\ j = 0
    /\ normalizedCategories = <<>>
    /\ gpc = "firstPass"
    /\ categoryOrder = <<>>
    /\ ci = 0
    /\ fi = 0
    /\ ensuredDirs = <<>>
    /\ copyLog = <<>>
    /\ thrown = "none"
    /\ opc = "normalize"
    /\ NormIdle
    /\ LockIdle
    /\ DepthIdle

\* insertion of a key into an object: a key already there keeps its place
KeyAdded(order, k) == IF includes(order, k) THEN order ELSE Append(order, k)

RECURSIVE KeysOfCategories(_, _)
KeysOfCategories(order, cats) ==
    IF Len(cats) = 0 THEN order
    ELSE KeysOfCategories(
             IF imagePatternTest(Head(cats)) THEN KeyAdded(order, "Images")
                                             ELSE order,
             Tail(cats))

\* the keys of normalizedCategories in the order the build loop created them,
\* which is the order "for (const category in normalizedCategories)" visits
RECURSIVE ObjectKeys(_, _)
ObjectKeys(order, groups) ==
    IF Len(groups) = 0 THEN order
    ELSE ObjectKeys(
             KeysOfCategories(KeyAdded(order, BucketName(Head(groups))),
                              Head(groups).categories),
             Tail(groups))

\* "const normalizedCategories = await normalizeCategoriesAndGroup(...)"
\* has returned: the for-in loop starts
StartLoop ==
    /\ opc = "normalize"
    /\ gpc = "done"
    /\ categoryOrder' = ObjectKeys(<<>>, categoryGroups)
    /\ ci' = 1
    /\ opc' = "category"
    /\ UNCHANGED <<fi, ensuredDirs, copyLog, thrown, normVars, groupVars,
                   lockVars, depthVars>>

\* "await fs.ensureDir(categoryPath)", outside every try block
EnsureDir ==
    /\ opc = "category"
    /\ ci <= Len(categoryOrder)
    /\ \E ok \in BOOLEAN :
           IF ok
           THEN /\ ensuredDirs' = Append(ensuredDirs, categoryOrder[ci])
                /\ fi' = 1
                /\ opc' = "file"
                /\ UNCHANGED thrown
           ELSE /\ thrown' = "ensureDir"
                /\ opc' = "thrown"
                /\ UNCHANGED <<ensuredDirs, fi>>
    /\ UNCHANGED <<categoryOrder, ci, copyLog, normVars, groupVars, lockVars, depthVars>>

\* a plausible slip of CopyFile: fs.copy outside the try block
CopyFileNoCatch ==
    /\ opc = "file"
    /\ fi <= Len(normalizedCategories[categoryOrder[ci]])
    /\ \E ok \in BOOLEAN :
           /\ copyLog' = Append(copyLog,
                  [category |-> categoryOrder[ci],
                   filePath |-> normalizedCategories[categoryOrder[ci]][fi],
                   copied   |-> ok])
           /\ IF ok
              THEN fi' = fi + 1 /\ UNCHANGED <<thrown, opc>>
              ELSE thrown' = "copy" /\ opc' = "thrown" /\ UNCHANGED fi
    /\ UNCHANGED <<categoryOrder, ci, ensuredDirs, normVars, groupVars,
                   lockVars, depthVars>>

\* "try { await fs.copy(filePath, destPath) } catch (error) { console.error }"
CopyFile ==
    /\ opc = "file"
    /\ fi <= Len(normalizedCategories[categoryOrder[ci]])
    /\ \E ok \in BOOLEAN :
           copyLog' = Append(copyLog,
               [category |-> categoryOrder[ci],
                filePath |-> normalizedCategories[categoryOrder[ci]][fi],
                copied   |-> ok])
    /\ fi' = fi + 1
    /\ UNCHANGED <<categoryOrder, ci, ensuredDirs, thrown, opc, normVars,
                   groupVars, lockVars, depthVars>>

\* end of the inner for-of loop
NextCategory ==
    /\ opc = "file"
    /\ fi > Len(normalizedCategories[categoryOrder[ci]])
    /\ ci' = ci + 1
    /\ opc' = "category"
    /\ UNCHANGED <<categoryOrder, fi, ensuredDirs, copyLog, thrown, normVars,
                   groupVars, lockVars, depthVars>>

\* end of the for-in loop: the promise of organizeFilesByCategory resolves
OrganizeReturn ==
    /\ opc = "category"
    /\ ci > Len(categoryOrder)
    /\ opc' = "returned"
    /\ UNCHANGED <<categoryOrder, ci, fi, ensuredDirs, copyLog, thrown,
                   normVars, groupVars, lockVars, depthVars>>

OrganizeNext ==
    \/ GroupNext
    \/ StartLoop
    \/ EnsureDir
    \/ CopyFile
    \/ NextCategory
    \/ OrganizeReturn

SpecOrganize == OrganizeInit /\ [][OrganizeNext]_vars

(***************************************************************************)
(* The /upload route: lock, upload.single("zipFile"), uploadZip, and the   *)
(* life of each request's response.  A response is "pending" until the     *)
(* handler ends it, "ended" until Node emits 'finish' for it, and          *)
(* "aborted" when the connection closes first: 'finish' is then never      *)
(* emitted for it.                                                         *)
(***************************************************************************)
LockInit ==
    /\ LockIdle
    /\ NormIdle
    /\ GroupIdle
    /\ OrgIdle
    /\ DepthIdle

\* res.status(code).json(...): the response is ended, unless the
\* connection is gone
Respond(r, code) ==
    /\ status' = [status EXCEPT ![r] = code]
    /\ response' = [response EXCEPT ![r] =
                        IF response[r] = "aborted" THEN "aborted" ELSE "ended"]

\* a plausible slip of lockMiddleware: the 'finish' listener registered
\* before the flag is tested
lockMiddlewareListenerFirst(r) ==
    /\ rstate[r] = "idle"
    /\ finishListener' = [finishListener EXCEPT ![r] = TRUE]
    /\ IF isLocked
       THEN /\ status' = [status EXCEPT ![r] = "429"]
            /\ response' = [response EXCEPT ![r] = "ended"]
            /\ rstate' = [rstate EXCEPT ![r] = "rejected"]
            /\ UNCHANGED isLocked
       ELSE /\ isLocked' = TRUE
            /\ response' = [response EXCEPT ![r] = "pending"]
            /\ rstate' = [rstate EXCEPT ![r] = "upload"]
            /\ UNCHANGED status
    /\ UNCHANGED <<reqFile, files, normVars, groupVars, orgVars, depthVars>>

\* a plausible slip of lockMiddleware: the 429 branch without its "return"
lockMiddlewareNoReturn(r) ==
    /\ rstate[r] = "idle"
    /\ status' = [status EXCEPT ![r] = IF isLocked THEN "429" ELSE "none"]
    /\ response' = [response EXCEPT ![r] = IF isLocked THEN "ended" ELSE "pending"]
    /\ isLocked' = TRUE
    /\ finishListener' = [finishListener EXCEPT ![r] = TRUE]
    /\ rstate' = [rstate EXCEPT ![r] = "upload"]
    /\ UNCHANGED <<reqFile, files, normVars, groupVars, orgVars, depthVars>>

\* lockMiddleware(req, res, next) for request r
lockMiddleware(r) ==
    /\ rstate[r] = "idle"
    /\ IF isLocked
       THEN /\ status' = [status EXCEPT ![r] = "429"]
            /\ response' = [response EXCEPT ![r] = "ended"]
            /\ rstate' = [rstate EXCEPT ![r] = "rejected"]
            /\ UNCHANGED <<isLocked, finishListener>>
       ELSE /\ isLocked' = TRUE
            /\ finishListener' = [finishListener EXCEPT ![r] = TRUE]
            /\ response' = [response EXCEPT ![r] = "pending"]
            /\ rstate' = [rstate EXCEPT ![r] = "upload"]
            /\ UNCHANGED status
    /\ UNCHANGED <<reqFile, files, normVars, groupVars, orgVars, depthVars>>

\* upload.single("zipFile"): the file is stored, the request has no file,
\* or multer fails and the error handler of the app answers
uploadSingle(r) ==
    /\ rstate[r] = "upload"
    /\ \E result \in {"file", "nofile", "error"} :
           IF result = "error"
           THEN /\ Respond(r, "400")
                /\ rstate' = [rstate EXCEPT ![r] = "done"]
                /\ UNCHANGED <<reqFile, files>>
           ELSE /\ reqFile' = [reqFile EXCEPT ![r] = (result = "file")]
                /\ files' = [files EXCEPT ![r] =
                                 IF result = "file" THEN {"upload"} ELSE {}]
                /\ rstate' = [rstate EXCEPT ![r] = "uploadZip"]
                /\ UNCHANGED <<status, response>>
    /\ UNCHANGED <<isLocked, finishListener, normVars, groupVars, orgVars, depthVars>>

\* what uploadZip can find in the stored upload
UploadFindings ==
    {"oversize", "extractFailed", "nestedZip", "tooDeep", "exception", "ok"}

\* the places of the try block at which an exception can be thrown: before
\* the session directories exist, between their creation and the writing of
\* the result zip, and from "resultZip.writeZip" on, when the result zip
\* (or a part of it) is on disk
ExceptionPoints == {"beforeSession", "processing", "bundling"}

\* what a run has created when it reaches each place of uploadZip
CreatedAt(place) ==
    CASE place \in {"oversize", "beforeSession"} -> {"upload"}
      [] place \in {"extractFailed", "nestedZip", "tooDeep", "processing"} ->
             {"upload", "extracted", "categorized"}
      [] place \in {"bundling", "ok"} ->
             {"upload", "extracted", "categorized", "resultZip"}

\* "await fs.remove(p)" for each p of paths
cleanup(existing, paths) == existing \ paths

\* the paths each exit of uploadZip removes
CleanupOf(place) ==
    IF place = "oversize" THEN {"upload"}
    ELSE {"upload", "extracted", "categorized"}

\* uploadZip(req, res) up to its response or its call of res.download
uploadZip(r) ==
    /\ rstate[r] = "uploadZip"
    /\ IF ~reqFile[r]
       THEN /\ Respond(r, "400")
            /\ rstate' = [rstate EXCEPT ![r] = "done"]
            /\ UNCHANGED files
       ELSE \E found \in UploadFindings :
                IF found = "ok"
                THEN /\ rstate' = [rstate EXCEPT ![r] = "download"]
                     /\ files' = [files EXCEPT ![r] = CreatedAt("ok")]
                     /\ UNCHANGED <<status, response>>
                ELSE IF found = "exception"
                THEN \E place \in ExceptionPoints :
                         /\ Respond(r, "500")
                         /\ files' = [files EXCEPT ![r] =
                                cleanup(CreatedAt(place), CleanupOf(place))]
                         /\ rstate' = [rstate EXCEPT ![r] = "done"]
                ELSE /\ Respond(r, "400")
                     /\ files' = [files EXCEPT ![r] =
                            cleanup(CreatedAt(found), CleanupOf(found))]
                     /\ rstate' = [rstate EXCEPT ![r] = "done"]
    /\ UNCHANGED <<isLocked, finishListener, reqFile, normVars, groupVars,
                   orgVars, depthVars>>

\* res.download(...) calls its callback: the transfer is complete, or it
\* failed before or after the headers were sent
download(r) ==
    /\ rstate[r] = "download"
    /\ \E result \in {"complete", "errBeforeHeaders", "errAfterHeaders"} :
           CASE result = "complete" ->
                    /\ response[r] # "aborted"
                    /\ Respond(r, "200")
                    /\ rstate' = [rstate EXCEPT ![r] = "cleanup"]
             [] result = "errBeforeHeaders" ->
                    /\ rstate' = [rstate EXCEPT ![r] = "cleanupThen500"]
                    /\ UNCHANGED <<status, response>>
             [] result = "errAfterHeaders" ->
                    /\ status' = [status EXCEPT ![r] = "200"]
                    /\ rstate' = [rstate EXCEPT ![r] = "cleanup"]
                    /\ UNCHANGED response
    /\ UNCHANGED <<isLocked, finishListener, reqFile, files, normVars, groupVars,
                   orgVars, depthVars>>

\* the callback of res.download: "await cleanup([...])", then the 500 when
\* there was an error and the headers were not sent
downloadCallback(r) ==
    /\ rstate[r] \in {"cleanup", "cleanupThen500"}
    /\ IF rstate[r] = "cleanupThen500"
       THEN Respond(r, "500")
       ELSE UNCHANGED <<status, response>>
    /\ files' = [files EXCEPT ![r] =
           cleanup(files[r], {"upload", "extracted", "categorized", "resultZip"})]
    /\ rstate' = [rstate EXCEPT ![r] = "done"]
    /\ UNCHANGED <<isLocked, finishListener, reqFile, normVars, groupVars,
                   orgVars, depthVars>>

\* Node emits 'finish' for an ended response; the listener of
\* lockMiddleware, when registered, clears the flag
finish(r) ==
    /\ response[r] = "ended"
    /\ response' = [response EXCEPT ![r] = "finished"]
    /\ isLocked' = IF finishListener[r] THEN FALSE ELSE isLocked
    /\ UNCHANGED <<rstate, finishListener, status, reqFile, files, normVars,
                   groupVars, orgVars, depthVars>>

\* the client's connection closes while the response is still to be
\* written: the response emits 'close' and never 'finish'
connectionClosed(r) ==
    /\ response[r] = "pending"
    /\ response' = [response EXCEPT ![r] = "aborted"]
    /\ UNCHANGED <<isLocked, rstate, finishListener, status, reqFile, files,
                   normVars, groupVars, orgVars, depthVars>>

LockNext ==
    \E r \in Requests :
        \/ lockMiddleware(r)
        \/ uploadSingle(r)
        \/ uploadZip(r)
        \/ download(r)
        \/ downloadCallback(r)
        \/ finish(r)
        \/ connectionClosed(r)

SpecLock == LockInit /\ [][LockNext]_vars

(***************************************************************************)
(* uploadZip between extraction and organizeFilesByCategory: the depth     *)
(* validation getMaxDepth and the categorizing walk processDirectory, on   *)
(* extracted trees that hold no zip file.  A directory is the sequence of  *)
(* its items; a file item carries the label that the categorization of its *)
(* content gives it.                                                       *)
(***************************************************************************)
MaxTreeDepth == 4    \* most folder levels of an extracted archive, root = 1

FolderLevelLimit == 3     \* "if (maxDepth > 3)"
ProcessMaxDepth  == 3     \* "processDirectory(extractPath, 0, 3)"

FileLabels == {"Invoices", "Notes"}

FileItem(name, label) ==
    [name |-> name, isDirectory |-> FALSE, category |-> label, items |-> <<>>]

DirItem(name, items) ==
    [name |-> name, isDirectory |-> TRUE, category |-> "", items |-> items]

\* a directory holds no file or one file
FileChoices == {<<>>} \cup {<<FileItem("f", c)>> : c \in FileLabels}

\* the directories of at most d folder levels: no file or one file, and no
\* subdirectory, one subdirectory "a", or "a" and a subdirectory "b" that
\* has no subdirectory itself
RECURSIVE Trees(_)
Trees(d) ==
    IF d = 1 THEN FileChoices
    ELSE LET Sub == Trees(d - 1)
             SubdirChoices ==
                 {<<>>}
                 \cup {<<DirItem("a", t)>> : t \in Sub}
                 \cup {<<DirItem("a", t), DirItem("b", u)>> :
                           t \in Sub, u \in FileChoices}
         IN  {f \o sd : f \in FileChoices, sd \in SubdirChoices}

Max(a, b) == IF a >= b THEN a ELSE b

\* getMaxDepth(dir, current = 1)
RECURSIVE getMaxDepth(_, _), getMaxDepthLoop(_, _, _)
getMaxDepthLoop(items, current, max) ==
    IF Len(items) = 0 THEN max
    ELSE getMaxDepthLoop(
             Tail(items), current,
             IF Head(items).isDirectory
             THEN Max(max, getMaxDepth(Head(items).items, current + 1))
             ELSE max)

getMaxDepth(items, current) == getMaxDepthLoop(items, current, current)

\* "for (const category in subDirCategories) ... push(...)"
MergeSubDir(obj, sub) ==
    [c \in DOMAIN obj \cup DOMAIN sub |->
        (IF c \in DOMAIN obj THEN obj[c] ELSE <<>>)
        \o (IF c \in DOMAIN sub THEN sub[c] ELSE <<>>)]

RECURSIVE processDirectory(_, _, _, _), processItems(_, _, _, _, _)
\* "for (const item of items)" of processDirectory
processItems(items, dirPath, currentDepth, maxDepthArg, obj) ==
    IF Len(items) = 0 THEN obj
    ELSE LET item     == Head(items)
             itemPath == dirPath \o "/" \o item.name
         IN  processItems(
                 Tail(items), dirPath, currentDepth, maxDepthArg,
                 IF item.isDirectory
                 THEN MergeSubDir(obj,
                          processDirectory(item.items, itemPath,
                                           currentDepth + 1, maxDepthArg))
                 ELSE PushAll(EnsureKey(obj, item.category), item.category,
                              <<itemPath>>))

\* a plausible slip of processDirectory: the cut-off one level too early
processDirectoryEarlyCutOff(items, dirPath, currentDepth, maxDepthArg) ==
    IF currentDepth + 1 >= maxDepthArg THEN <<>>
    ELSE processItems(items, dirPath, currentDepth, maxDepthArg, <<>>)

\* processDirectory(dirPath, currentDepth, maxDepth)
processDirectory(items, dirPath, currentDepth, maxDepthArg) ==
    IF currentDepth > maxDepthArg THEN <<>>
    ELSE processItems(items, dirPath, currentDepth, maxDepthArg, <<>>)

DepthInit ==
    /\ extracted \in Trees(MaxTreeDepth)
    /\ maxDepth = 0
    /\ dirCategories = <<>>
    /\ dpc = "extracted"
    /\ NormIdle
    /\ GroupIdle
    /\ LockIdle
    /\ OrgIdle

\* "const maxDepth = getMaxDepth(extractPath); if (maxDepth > 3) ... 400"
ValidateDepth ==
    /\ dpc = "extracted"
    /\ maxDepth' = getMaxDepth(extracted, 1)
    /\ dpc' = IF getMaxDepth(extracted, 1) > FolderLevelLimit
              THEN "rejected" ELSE "validated"
    /\ UNCHANGED <<extracted, dirCategories, normVars, groupVars, lockVars,
                   orgVars>>

\* "const fileCategories = await fileService.processDirectory(extractPath, 0, 3)"
ProcessDirectory ==
    /\ dpc = "validated"
    /\ dirCategories' = processDirectory(extracted, "x", 0, ProcessMaxDepth)
    /\ dpc' = "processed"
    /\ UNCHANGED <<extracted, maxDepth, normVars, groupVars, lockVars,
                   orgVars>>

DepthNext == ValidateDepth \/ ProcessDirectory

SpecDepth == DepthInit /\ [][DepthNext]_vars

(***************************************************************************)
(* Properties of basicNormalize.                                           *)
(***************************************************************************)
OnlyLettersDigitsSingleSpaces(s) ==
    /\ \A k \in 1..Len(s) : Chr(s, k) \in AlnumChars \cup {" "}
    /\ \A k \in 1..(Len(s) - 1) : ~(Chr(s, k) = " " /\ Chr(s, k + 1) = " ")

\* C7: the normalizer's output holds only letters, digits and single spaces;
\* every other character, the underscore included, has become a space.
C7_OutputOnlyLettersDigitsSpaces ==
    npc \in {"normalized", "renormalized"}
        => OnlyLettersDigitsSingleSpaces(normalized)

\* C8: normalizing an already-normalized string returns it unchanged.
C8_NormalizeIdempotent ==
    npc = "renormalized" => renormalized = normalized

\* a string that normalization changed was normalized a second time
C8_Witness ==
    /\ npc = "renormalized"
    /\ normalized # category
    /\ Len(normalized) >= 2

(***************************************************************************)
(* Properties of normalizeCategoriesAndGroup.                              *)
(***************************************************************************)
GroupingDone == gpc \in {"build", "done"}

\* the places <<g, m>> of the closed groups at which label l is listed
Places(l) ==
    {pl \in (1..Len(categoryGroups)) \X (1..MaxLabels + 1) :
        /\ pl[2] <= Len(categoryGroups[pl[1]].categories)
        /\ categoryGroups[pl[1]].categories[pl[2]] = l}

\* the index of the closed group that lists label l
GroupOf(l) ==
    CHOOSE g \in 1..Len(categoryGroups) : includes(categoryGroups[g].categories, l)

\* the position of label l in the input order
InputIndex(l) == CHOOSE k \in 1..Len(keys) : keys[k] = l

\* C1: when the grouping pass is over, every input label is listed in exactly
\* one group, exactly once, and the groups list input labels only.
C1_Partition ==
    GroupingDone =>
        /\ \A k \in 1..Len(keys) : Cardinality(Places(keys[k])) = 1
        /\ \A g \in 1..Len(categoryGroups) :
               ToSet(categoryGroups[g].categories) \subseteq ToSet(keys)

\* three labels were partitioned into a group of two and a group of one
C1_Witness ==
    /\ gpc = "done"
    /\ Len(keys) = 3
    /\ Len(categoryGroups) = 2

\* the number of times x occurs in seq
Count(seq, x) == Cardinality({n \in 1..Len(seq) : seq[n] = x})

\* the lists of an object, concatenated
RECURSIVE AllItems(_)
AllItems(obj) ==
    IF DOMAIN obj = {} THEN <<>>
    ELSE LET k == CHOOSE x \in DOMAIN obj : TRUE
         IN  obj[k] \o AllItems([x \in DOMAIN obj \ {k} |-> obj[x]])

PoolPathSet == UNION {ToSet(InputPool[k].paths) : k \in 1..Len(InputPool)}

\* C2: the output buckets hold the input's file paths as a multiset: each
\* path as often in the output as in the input.
C2_PathsPreserved ==
    gpc = "done" =>
        \A p \in PoolPathSet :
            Count(AllItems(normalizedCategories), p)
                = Count(AllItems(fileCategories), p)

\* an image-labelled member of a group whose primary name is image-labelled
C2_Witness ==
    /\ gpc = "done"
    /\ \E g \in 1..Len(categoryGroups) :
           /\ imagePatternTest(categoryGroups[g].primaryName)
           /\ Len(categoryGroups[g].categories) >= 2
           /\ Len(fileCategories[categoryGroups[g].primaryName]) >= 1

\* C3: the paths of a label that matches the image pattern are all in the
\* bucket "Images" and in no other bucket.
C3_ImageLabelsInImages ==
    gpc = "done" =>
        \A l \in ToSet(keys) :
            imagePatternTest(l) =>
                /\ "Images" \in DOMAIN normalizedCategories
                /\ \A n \in 1..Len(fileCategories[l]) :
                       /\ includes(normalizedCategories["Images"],
                                   fileCategories[l][n])
                       /\ \A b \in DOMAIN normalizedCategories \ {"Images"} :
                              ~includes(normalizedCategories[b],
                                        fileCategories[l][n])

\* an image-labelled member of a group whose primary name is not
C3_Witness ==
    /\ gpc = "done"
    /\ \E g \in 1..Len(categoryGroups) :
           /\ ~imagePatternTest(categoryGroups[g].primaryName)
           /\ \E m \in 1..Len(categoryGroups[g].categories) :
                  imagePatternTest(categoryGroups[g].categories[m])

\* C6: with the labels "Invoice_2024" and "Receipt_2024" alone, both are in
\* one group and the output has a single bucket with the paths of both.
C6_InvoiceReceiptOneBucket ==
    (gpc = "done" /\ ToSet(keys) = {"Invoice_2024", "Receipt_2024"}) =>
        /\ Len(categoryGroups) = 1
        /\ Cardinality(DOMAIN normalizedCategories) = 1

\* C9: a closed group's primaryName is its longest member and, among the
\* members of that length, the first in input order.
C9_PrimaryNameLongestFirst ==
    GroupingDone =>
        \A g \in 1..Len(categoryGroups) :
            LET cats == categoryGroups[g].categories
                pn   == categoryGroups[g].primaryName
            IN  /\ includes(cats, pn)
                /\ \A m \in 1..Len(cats) :
                       /\ Len(cats[m]) <= Len(pn)
                       /\ Len(cats[m]) = Len(pn)
                              => InputIndex(pn) <= InputIndex(cats[m])

\* a group of three whose longest length is shared by two members, neither
\* of them the seed
C9_Witness ==
    /\ gpc = "done"
    /\ \E g \in 1..Len(categoryGroups) :
           LET cats == categoryGroups[g].categories
               pn   == categoryGroups[g].primaryName
           IN  /\ Len(cats) = 3
               /\ pn # cats[1]
               /\ \E m \in 1..Len(cats) : cats[m] # pn /\ Len(cats[m]) = Len(pn)

\* C10: two input labels with equal normalized forms are in the same group.
C10_EqualNormalizedSameGroup ==
    GroupingDone =>
        \A a, b \in 1..Len(keys) :
            categoryEntries[a].normalized = categoryEntries[b].normalized
                => GroupOf(keys[a]) = GroupOf(keys[b])

\* two labels with equal normalized forms, neither the seed of their group
C10_Witness ==
    /\ gpc = "done"
    /\ \E a, b \in 1..Len(keys) :
           /\ a # b
           /\ categoryEntries[a].normalized = categoryEntries[b].normalized
           /\ GroupOf(keys[a]) = GroupOf(keys[b])
           /\ categoryGroups[GroupOf(keys[a])].categories[1] \notin {keys[a], keys[b]}

(***************************************************************************)
(* Properties of the upload lock.                                          *)
(***************************************************************************)
\* request r set the flag and its response has not finished
Running(r) == finishListener[r] /\ response[r] # "finished"

\* at most one request holds the flag; the requests inside upload parsing,
\* uploadZip or the download are among them; a 429 went only to a request
\* that stayed outside the chain
C4_AtMostOneRun ==
    /\ Cardinality({r \in Requests : Running(r)}) <= 1
    /\ (\E r \in Requests : Running(r)) => isLocked
    /\ \A r \in Requests :
           /\ rstate[r] \in {"upload", "uploadZip", "download", "cleanupThen500"}
                  => Running(r)
           /\ status[r] = "429"
                  => rstate[r] = "rejected" /\ ~finishListener[r] /\ ~reqFile[r]

\* a request that arrives while the flag is set is rejected with 429, and a
\* rejected request stays rejected
C4_RejectedNeverRuns ==
    \A r \in Requests :
        /\ (rstate[r] = "idle" /\ isLocked /\ rstate'[r] # "idle")
               => (rstate'[r] = "rejected" /\ status'[r] = "429")
        /\ rstate[r] = "rejected" => rstate'[r] = "rejected"

\* C4: at most one request is between setting the flag and the finish of its
\* response; a request that arrives while the flag is set is answered 429
\* and never enters upload parsing or uploadZip, then or later.
C4_OneRunNoQueue == []C4_AtMostOneRun /\ [][C4_RejectedNeverRuns]_vars

\* a run is inside uploadZip while another request has had its 429
C4_Witness ==
    \E r, q \in Requests :
        /\ rstate[r] = "uploadZip"
        /\ Running(r)
        /\ rstate[q] = "rejected"
        /\ response[q] = "finished"

\* C5: once every request that set the flag is over (its handler has
\* returned and its response has finished or its connection has closed),
\* the flag is clear again.
C5_FlagReleasedWhenRunsOver ==
    (\A r \in Requests :
        finishListener[r] =>
            rstate[r] = "done" /\ response[r] \in {"finished", "aborted"})
        => ~isLocked

\* C11: the label "Document_Screenshot.png_batch" matches the image pattern,
\* so its files are in the bucket "Images" and in no other bucket.
C11_PngBatchRoutedToImages ==
    (gpc = "done" /\ includes(keys, "Document_Screenshot.png_batch")) =>
        /\ imagePatternTest("Document_Screenshot.png_batch")
        /\ "Images" \in DOMAIN normalizedCategories
        /\ includes(normalizedCategories["Images"], "s1.png")
        /\ \A b \in DOMAIN normalizedCategories \ {"Images"} :
               ~includes(normalizedCategories[b], "s1.png")

\* the (bucket, path) pairs of the consolidated mapping, in loop order
RECURSIVE PairsOf(_)
PairsOf(order) ==
    IF Len(order) = 0 THEN <<>>
    ELSE [k \in 1..Len(normalizedCategories[Head(order)]) |->
             <<Head(order), normalizedCategories[Head(order)][k]>>]
         \o PairsOf(Tail(order))

CopyAttempts == [k \in 1..Len(copyLog) |->
                    <<copyLog[k].category, copyLog[k].filePath>>]

\* C12: a failed copy never makes organizeFilesByCategory raise (only a
\* failed fs.ensureDir ends the loop early); when it returns, one copy was attempted for every bucket and every path of the
\* consolidated mapping, whatever the outcome of the earlier copies; and the
\* buckets visited are exactly the keys of the mapping.
C12_CopyFailureDoesNotAbort ==
    /\ thrown # "copy"
    /\ opc = "thrown" => thrown = "ensureDir"
    /\ opc = "returned" =>
          /\ ToSet(categoryOrder) = DOMAIN normalizedCategories
          /\ Len(categoryOrder) = Cardinality(DOMAIN normalizedCategories)
          /\ CopyAttempts = PairsOf(categoryOrder)

\* the batch has ended normally, its first copy failed, a later one succeeded
C12_Witness ==
    /\ opc = "returned"
    /\ Len(copyLog) >= 3
    /\ ~copyLog[1].copied
    /\ copyLog[Len(copyLog)].copied
    /\ Len(categoryOrder) >= 2

\* the synonym groups as sets of words
SynonymSets == {ToSet(synonymGroups[g]) : g \in 1..Len(synonymGroups)}

\* condition (a): equal normalized forms
SameNormalized(E, O) == E.normalized = O.normalized

\* condition (b): two shared words, or all the words of one of the two
WordOverlap(E, O) ==
    LET I == ToSet(E.words) \cap ToSet(O.words)
    IN  \/ Cardinality(I) >= 2
        \/ /\ Cardinality(I) > 0
           /\ Cardinality(I) \in {Cardinality(ToSet(E.words)),
                                  Cardinality(ToSet(O.words))}

\* condition (c): a synonym group with a word of each, and a shared word
\* outside that group
SynonymBridge(E, O) ==
    \E G \in SynonymSets :
        /\ ToSet(E.words) \cap G # {}
        /\ ToSet(O.words) \cap G # {}
        /\ (ToSet(E.words) \ G) \cap (ToSet(O.words) \ G) # {}

MatchTest(E, O) ==
    SameNormalized(E, O) \/ WordOverlap(E, O) \/ SynonymBridge(E, O)

\* C13: while seed i is processed, a still-unmarked entry j is absorbed
\* (marked and appended to the seed's group) by the iteration that visits it
\* exactly when the two have equal normalized forms, or overlap in words, or
\* are bridged by a synonym group; nothing else absorbs and nothing prevents.
C13_AbsorbedIffMatch ==
    [][(/\ gpc = "inner"
        /\ j <= Len(categoryEntries)
        /\ j # i
        /\ ~categoryEntries[j].hasBeenGrouped)
       => ((/\ categoryEntries'[j].hasBeenGrouped
            /\ group'.categories =
                   Append(group.categories, categoryEntries[j].original))
           <=> MatchTest(categoryEntries[i], categoryEntries[j]))]_vars

\* a seed has absorbed one entry by the synonym bridge alone and has passed
\* over another entry that it does not match
C13_Witness ==
    /\ gpc = "inner"
    /\ j > Len(categoryEntries)
    /\ Len(categoryEntries) = 3
    /\ Len(group.categories) = 2
    /\ \E m \in 1..3 :
           /\ categoryEntries[m].original = group.categories[2]
           /\ SynonymBridge(categoryEntries[i], categoryEntries[m])
           /\ ~SameNormalized(categoryEntries[i], categoryEntries[m])
           /\ ~WordOverlap(categoryEntries[i], categoryEntries[m])
    /\ \E m \in 1..3 :
           /\ ~categoryEntries[m].hasBeenGrouped
           /\ ~MatchTest(categoryEntries[i], categoryEntries[m])

\* the seed of closed group g: the entry that opened it
Seed(g) == categoryGroups[g].categories[1]

\* C14: membership is decided against the seed only: every non-seed member
\* of a cluster matches the cluster's seed, so a label that does not match
\* the seed of a cluster is not in it, whichever other members it matches.
C14_MembersMatchSeed ==
    GroupingDone =>
        \A g \in 1..Len(categoryGroups) :
            /\ \A m \in 2..Len(categoryGroups[g].categories) :
                   MatchTest(MakeEntry(Seed(g)),
                             MakeEntry(categoryGroups[g].categories[m]))
            /\ \A k \in 1..Len(keys) :
                   (keys[k] # Seed(g)
                    /\ ~MatchTest(MakeEntry(Seed(g)), MakeEntry(keys[k])))
                   => ~includes(categoryGroups[g].categories, keys[k])

\* a label sits in a later cluster although it matches a non-seed member of
\* an earlier cluster: it does not match that cluster's seed.  (Had that
\* member come first in the input, it would have absorbed both.)
C14_Witness ==
    /\ gpc = "done"
    /\ Len(categoryGroups) = 2
    /\ Len(categoryGroups[1].categories) = 2
    /\ MatchTest(MakeEntry(categoryGroups[1].categories[2]), MakeEntry(Seed(2)))
    /\ MatchTest(MakeEntry(categoryGroups[1].categories[2]), MakeEntry(Seed(1)))
    /\ ~MatchTest(MakeEntry(Seed(1)), MakeEntry(Seed(2)))

\* C15: the word-overlap and synonym-bridge rules never hold of a pair in
\* which either entry has no significant word, and a label without
\* significant words shares its cluster only with labels of the same
\* normalized form.
C15_EmptyWordsOnlyExact ==
    /\ \A a, b \in 1..Len(categoryEntries) :
           (categoryEntries[a].words = <<>> \/ categoryEntries[b].words = <<>>)
           => /\ ~Method2(categoryEntries[a], categoryEntries[b])
              /\ ~Method3(categoryEntries[a], categoryEntries[b])
    /\ GroupingDone =>
           \A g \in 1..Len(categoryGroups) :
               \A a, b \in 1..Len(categoryGroups[g].categories) :
                   MakeEntry(categoryGroups[g].categories[a]).words = <<>>
                   => basicNormalize(categoryGroups[g].categories[a])
                          = basicNormalize(categoryGroups[g].categories[b])

\* two labels without significant words were clustered together, and a
\* third label that has words was left out of their cluster
C15_Witness ==
    /\ gpc = "done"
    /\ Len(categoryGroups) = 2
    /\ \E g \in 1..2 :
           /\ Len(categoryGroups[g].categories) = 2
           /\ \A m \in 1..2 :
                  MakeEntry(categoryGroups[g].categories[m]).words = <<>>
    /\ \E g \in 1..2 :
           /\ Len(categoryGroups[g].categories) = 1
           /\ MakeEntry(Seed(g)).words # <<>>

\* C16: every key of the output is "Images" or the primary name of a cluster
\* whose primary name does not match the image pattern; no key other than
\* "Images" matches the pattern; and the files of every member of a cluster
\* whose primary name matches the pattern are under "Images".
C16_KeysAreImagesOrPlainPrimaryNames ==
    gpc = "done" =>
        /\ \A k \in DOMAIN normalizedCategories :
               /\ \/ k = "Images"
                  \/ \E g \in 1..Len(categoryGroups) :
                         /\ categoryGroups[g].primaryName = k
                         /\ ~imagePatternTest(categoryGroups[g].primaryName)
               /\ k # "Images" => ~imagePatternTest(k)
        /\ \A g \in 1..Len(categoryGroups) :
               imagePatternTest(categoryGroups[g].primaryName) =>
                   \A m \in 1..Len(categoryGroups[g].categories) :
                       /\ "Images" \in DOMAIN normalizedCategories
                       /\ ToSet(PoolPaths(categoryGroups[g].categories[m]))
                              \subseteq ToSet(normalizedCategories["Images"])

\* a cluster whose primary name matches the pattern has a member that does
\* not match it, and the output has "Images" and one more key
C16_Witness ==
    /\ gpc = "done"
    /\ \E g \in 1..Len(categoryGroups) :
           /\ imagePatternTest(categoryGroups[g].primaryName)
           /\ \E m \in 1..Len(categoryGroups[g].categories) :
                  ~imagePatternTest(categoryGroups[g].categories[m])
    /\ Cardinality(DOMAIN normalizedCategories) = 2
    /\ "Images" \in DOMAIN normalizedCategories

\* 'finish' is emitted for the response of request r in this step
Finishes(r) == response[r] = "ended" /\ response'[r] = "finished"

\* C17: a request rejected by the lock leaves the flag as it is, both when it
\* is rejected and when its 429 response emits 'finish'; the flag is cleared
\* only by 'finish' of the response of the request that set it (the one
\* admitted request whose response has not finished).
C17_RejectedLeavesFlag ==
    [][/\ \A r \in Requests :
              /\ (rstate[r] = "idle" /\ rstate'[r] = "rejected")
                     => (isLocked /\ isLocked')
              /\ (rstate[r] = "rejected" /\ Finishes(r))
                     => isLocked' = isLocked
       /\ (isLocked /\ ~isLocked') =>
              \E r \in Requests :
                  /\ rstate[r] \notin {"idle", "rejected"}
                  /\ Finishes(r)
                  /\ \A q \in Requests \ {r} : ~Running(q)]_vars

\* the 429 response of a rejected request has emitted 'finish' while the
\* request that set the flag is still being served, and the flag is still set
C17_Witness ==
    \E r, q \in Requests :
        /\ rstate[r] = "rejected"
        /\ response[r] = "finished"
        /\ rstate[q] \in {"uploadZip", "download"}
        /\ response[q] = "pending"
        /\ isLocked

\* C18: when the grouping pass is over, no two seeds match each other, and
\* the members of every cluster are in ascending input order, the seed first.
C18_SeedsApartMembersAscending ==
    GroupingDone =>
        /\ \A g, h \in 1..Len(categoryGroups) :
               g # h => ~MatchTest(MakeEntry(Seed(g)), MakeEntry(Seed(h)))
        /\ \A g \in 1..Len(categoryGroups) :
               \A a, b \in 1..Len(categoryGroups[g].categories) :
                   a < b => InputIndex(categoryGroups[g].categories[a])
                                < InputIndex(categoryGroups[g].categories[b])

\* a seed absorbed a label that comes after the seed of the next cluster
C18_Witness ==
    /\ gpc = "done"
    /\ Len(categoryGroups) = 2
    /\ Len(categoryGroups[1].categories) = 2
    /\ InputIndex(Seed(2)) < InputIndex(categoryGroups[1].categories[2])

\* the paths of all files below a directory, whatever their depth
RECURSIVE FilePaths(_, _)
FilePaths(items, dirPath) ==
    IF Len(items) = 0 THEN {}
    ELSE (IF Head(items).isDirectory
          THEN FilePaths(Head(items).items, dirPath \o "/" \o Head(items).name)
          ELSE {dirPath \o "/" \o Head(items).name})
         \cup FilePaths(Tail(items), dirPath)

\* the depths, counted as processDirectory counts them, of all directories
RECURSIVE WalkDepths(_, _)
WalkDepths(items, depth) ==
    IF Len(items) = 0 THEN {depth}
    ELSE (IF Head(items).isDirectory
          THEN WalkDepths(Head(items).items, depth + 1) ELSE {})
         \cup WalkDepths(Tail(items), depth)

\* the places <<label, k>> of the returned object at which path p is listed
PlacesOfPath(p) ==
    {pl \in (DOMAIN dirCategories) \X (1..Cardinality(FilePaths(extracted, "x"))) :
        /\ pl[2] <= Len(dirCategories[pl[1]])
        /\ dirCategories[pl[1]][pl[2]] = p}

\* C19: an extracted tree that passed the depth validation is walked by
\* processDirectory(extractPath, 0, 3) without reaching the depth cut-off,
\* and every file of the tree is listed under exactly one label, once.
C19_ValidatedTreeFullyCategorized ==
    /\ dpc \in {"validated", "processed"} =>
           \A d \in WalkDepths(extracted, 0) : d <= ProcessMaxDepth
    /\ dpc = "processed" =>
           /\ \A p \in FilePaths(extracted, "x") :
                  Cardinality(PlacesOfPath(p)) = 1
           /\ \A c \in DOMAIN dirCategories :
                  ToSet(dirCategories[c]) \subseteq FilePaths(extracted, "x")

\* a tree of exactly three folder levels with a file at each level and in a
\* side directory was processed
C19_Witness ==
    /\ dpc = "processed"
    /\ maxDepth = FolderLevelLimit
    /\ {"x/f", "x/a/f", "x/a/a/f", "x/b/f"} \subseteq FilePaths(extracted, "x")
    /\ Cardinality(DOMAIN dirCategories) = 2

\* C20: once a run of uploadZip is over, whichever way it ended, nothing of
\* that run is left on disk: not the uploaded archive, not the extracted or
\* the categorized directory, not the result zip.
C20_NothingLeftWhenRunOver ==
    \A r \in Requests : rstate[r] = "done" => files[r] = {}

=============================================================================
